---- MODULE Spec2Model ----
(***************************************************************************)
(* Saiko (src/src/saiko.js): the cascading configuration resolver, the     *)
(* event dispatcher and the response reconciler of enablePlugins.          *)
(*                                                                         *)
(* Every handleEvent call is an async task.  A task runs without           *)
(* interruption from one `await` to the next, so every action below is one *)
(* such segment: it resumes a task with the outcome of the transport call  *)
(* it was waiting for, runs the synchronous code that follows and stops at *)
(* the next transport call (or at the end of the handler).                 *)
(***************************************************************************)
EXTENDS Integers, Sequences, FiniteSets, TLC

VARIABLES
    phase,      \* how far the bootstrap got: constructed .. running
    data,       \* this.data: the configuration store
    plugins,    \* this.plugins: the registry, in registration order
    responses,  \* this.responses: trigger id -> the array it holds (0: no entry)
    heap,       \* the arrays this.responses and the tasks refer to
    task,       \* the handleEvent tasks (locals and position)
    nevents,    \* number of events delivered so far
    sent,       \* transport: for each bot message id, the trigger it was sent for
    deleted,    \* transport: ids of the bot messages deleted successfully
    failures,   \* number of transport failures injected so far
    query       \* last isPluginEnabled question asked and its answer

vars == <<phase, data, plugins, responses, heap, task, nevents, sent, deleted, failures, query>>

\* ------------------------------------------------------------------ bounds
MaxTasks == 2      \* handleEvent tasks in flight at the same time
MaxEvents == 3     \* events delivered in a run
MaxMessages == 5   \* messages the bot sends in a run
MaxFailures == 1   \* transport calls that fail in a run

Tasks == 1..MaxTasks

\* ------------------------------------------------------- configuration values
\* A configuration value is a mapping (a JS object) or a scalar; undefined is
\* what reading a missing key gives.
Obj(m) == [t |-> "obj", m |-> m]
Val(v) == [t |-> "val", v |-> v]
Undefined == [t |-> "undefined"]
EmptyObj == Obj(<<>>)
True == Val("true")
False == Val("false")

IsObj(x) == x.t = "obj"

\* obj[key]
Get(x, key) == IF IsObj(x) /\ key \in DOMAIN x.m THEN x.m[key] ELSE Undefined

\* JS truthiness of a configuration value
Truthy(x) ==
    CASE x.t = "undefined" -> FALSE
      [] x.t = "obj" -> TRUE
      [] OTHER -> x.v \notin {"false", "0", "", "null"}

\* a || b
Or(a, b) == IF Truthy(a) THEN a ELSE b

\* The recursive deep merge of two values: nested mappings merge key by key,
\* anything else is replaced by the later side.
RECURSIVE Merge(_, _)
Merge(a, b) ==
    IF ~IsObj(b) THEN a
    ELSE IF ~IsObj(a) THEN b
    ELSE Obj([k \in DOMAIN a.m \cup DOMAIN b.m |->
                IF k \notin DOMAIN b.m THEN a.m[k]
                ELSE IF k \notin DOMAIN a.m THEN b.m[k]
                ELSE IF IsObj(a.m[k]) /\ IsObj(b.m[k]) THEN Merge(a.m[k], b.m[k])
                ELSE b.m[k]])

\* Object.deepAssign(target, ...sources): sources that are not objects
\* (undefined, true) contribute nothing.
RECURSIVE deepAssign(_, _)
deepAssign(target, sources) ==
    IF sources = <<>> THEN target
    ELSE deepAssign(Merge(target, Head(sources)), Tail(sources))

\* ------------------------------------------------------------------ places
Guild(id) == [kind |-> "guild", id |-> id, type |-> "guild", guild |-> id]
Channel(id, type, guild) == [kind |-> "channel", id |-> id, type |-> type, guild |-> guild]

G1 == Guild("g1")
C1 == Channel("c1", "text", "g1")
C2 == Channel("c2", "dm", "none")
C3 == Channel("c3", "voice", "g1")
Places == {G1, C1, C2, C3}
Channels == {place \in Places : place.kind = "channel"}

\* discordTools.getPlaceType(place)
getPlaceType(place) == IF place.kind = "guild" THEN "guild" ELSE place.type

\* The channel's configuration with the guild layer taken whatever the kind of
\* the channel.
getChannelConfigGuildAlways(channel) ==
    deepAssign(EmptyObj,
        << Get(data, "defaults"),
           Get(Get(data, "guilds"), channel.guild),
           Get(Get(data, "channels"), channel.id) >>)

getChannelConfig(channel) ==
    LET noGuild == channel.type # "text"
    IN  deepAssign(EmptyObj,
            << Get(data, "defaults"),
               IF noGuild THEN True ELSE Get(Get(data, "guilds"), channel.guild),
               Get(Get(data, "channels"), channel.id) >>)

getGuildConfig(guild) ==
    deepAssign(EmptyObj,
        << Get(data, "defaults"), Get(Get(data, "guilds"), guild.id) >>)

getPluginConfig(plugin, place) ==
    LET placeType == getPlaceType(place)
        placeConfig ==
            IF placeType = "guild" THEN getGuildConfig(place)
            ELSE IF placeType \in {"text", "dm", "group", "voice"} THEN getChannelConfig(place)
            ELSE EmptyObj
    IN  Or(Get(Or(Get(placeConfig, "plugins"), EmptyObj), plugin), EmptyObj)

\* The check with any truthy value of `enabled` counting as enabled.
isPluginEnabledTruthy(plugin, place) ==
    LET pluginConfig == getPluginConfig(plugin, place)
    IN  Truthy(Get(pluginConfig, "enabled"))

isPluginEnabled(plugin, place) ==
    LET pluginConfig == getPluginConfig(plugin, place)
    IN  Get(pluginConfig, "enabled") = True

\* ------------------------------------------------------------- bootstrap
\* A plugins mapping that enables exactly the plugins of `on`.
Enable(on) == Obj([p \in on |-> Obj("enabled" :> True)])

\* Contents of data.json the bot may be started with.
DataChoices ==
    { \* p1 on by default, p2 on in guild g1, p3 switched on with the string
      \* "true" in c1; in the direct channel c2, p1 is switched off and p3 on
      Obj( "token" :> Val("secret")
        @@ "defaults" :> Obj("plugins" :> Enable({"p1"}))
        @@ "guilds" :> Obj("g1" :> Obj("plugins" :> Enable({"p2"})))
        @@ "channels" :> Obj(
               "c1" :> Obj("plugins" :> Obj("p3" :> Obj("enabled" :> Val("'true'"))))
            @@ "c2" :> Obj("plugins" :> Obj("p1" :> Obj("enabled" :> False)
                                         @@ "p3" :> Obj("enabled" :> True))))),
      \* no token
      Obj("defaults" :> Obj("plugins" :> Enable({"p1"}))) }

\* Saiko#loadData with `raw` the parsed data.json
loadData(raw) ==
    /\ phase = "constructed"
    /\ IF Get(raw, "token") = Undefined
       THEN \* logger.panic: process.exit(1)
            /\ phase' = "exited"
            /\ UNCHANGED data
       ELSE /\ phase' = "dataLoaded"
            /\ data' = Obj([k \in DOMAIN raw.m \cup {"defaults", "guilds", "channels"} |->
                              IF k \in {"defaults", "guilds", "channels"}
                              THEN (IF IsObj(Get(raw, k)) THEN raw.m[k] ELSE EmptyObj)
                              ELSE raw.m[k]])
    /\ UNCHANGED <<plugins, responses, heap, task, nevents, sent, deleted, failures, query>>

\* The plugin files of build/plug, in directory order.
PluginFiles == <<"p1", "p2", "p3">>

\* Saiko#loadPlugins
loadPlugins ==
    /\ phase = "dataLoaded"
    /\ phase' = "pluginsLoaded"
    /\ plugins' = PluginFiles
    /\ UNCHANGED <<data, responses, heap, task, nevents, sent, deleted, failures, query>>

\* Saiko#enablePlugins: binds handleEvent to the three events
enablePlugins ==
    /\ phase = "pluginsLoaded"
    /\ phase' = "running"
    /\ UNCHANGED <<data, plugins, responses, heap, task, nevents, sent, deleted, failures, query>>

\* ------------------------------------------------------------ event inputs
eventNames == {"message", "messageDelete", "messageUpdate"}

\* The trigger messages of the model: each has an id and lives in a channel.
Messages == {[id |-> "t1", channel |-> C1], [id |-> "t2", channel |-> C2]}
TriggerIds == {m.id : m \in Messages}

\* A plugin's answer: null, or a Response {posts, edits}.
Null == [present |-> FALSE, posts |-> <<>>, edits |-> <<>>]
Response(posts, edits) == [present |-> TRUE, posts |-> posts, edits |-> edits]

\* What the handlers of each plugin may answer to an event.
Answers(plugin) ==
    CASE plugin = "p1" -> {Null, Response(<<"P1", "P2">>, <<>>), Response(<<>>, <<"E1">>)}
      [] plugin = "p2" -> {Null, Response(<<"P3">>, <<"E1", "E2">>)}
      [] OTHER -> {Null, Response(<<"P1">>, <<>>), Response(<<>>, <<"E1", "E2", "E3">>)}

\* ------------------------------------------------------ messages and arrays
\* A message handle of the bot; Hole is an array slot that holds undefined.
Handle(id, content) == [id |-> id, content |-> content]
Hole == Handle(0, "undefined")

\* arr[index] = value, arrays being 0-based in the code and 1-based here:
\* writing past the end pads the array with holes.
SetAt(arr, index, value) ==
    IF index <= Len(arr) THEN [arr EXCEPT ![index] = value]
    ELSE arr \o [j \in 1..(index - Len(arr) - 1) |-> Hole] \o <<value>>

\* Names of the arrays: one per ledger entry and one per task is enough.
ArrayIds == 1..(Cardinality(TriggerIds) + MaxTasks)

\* A task: its position (pc), the locals of handleEvent, and what it did so
\* far: the handlers it invoked, the response the plugin loop ended with, the
\* ledger sequence it found, the transport calls it made, the errors it logged.
IdleTask ==
    [ pc |-> "idle", eventName |-> "", message |-> "", channel |-> C1,
      response |-> Null, sentMessages |-> 0, index |-> 0,
      invoked |-> <<>>, handed |-> Null, before |-> <<>>,
      calls |-> <<>>, errors |-> <<>> ]

Init ==
    /\ phase = "constructed"
    /\ data = EmptyObj
    /\ plugins = <<>>
    /\ responses = [id \in TriggerIds |-> 0]
    /\ heap = [a \in ArrayIds |-> <<>>]
    /\ task = [k \in Tasks |-> IdleTask]
    /\ nevents = 0
    /\ sent = <<>>
    /\ deleted = {}
    /\ failures = 0
    /\ query = [plugin |-> "", place |-> G1, enabled |-> FALSE, config |-> Undefined]

\* -------------------------------------------------------------- dispatch
\* for (const plugin of this.plugins) ...: `returns` is what each handler
\* would answer for this event; the result is the response kept and the
\* handlers invoked, in order.
\* The loop with the last answer winning: every later answer replaces the
\* response.
RECURSIVE pluginLoopLastWins(_, _, _, _, _)
pluginLoopLastWins(i, channel, returns, response, invoked) ==
    IF i > Len(plugins) THEN [response |-> response, invoked |-> invoked]
    ELSE IF isPluginEnabled(plugins[i], channel)
    THEN LET pluginResponse == returns[plugins[i]]
         IN  pluginLoopLastWins(i + 1, channel, returns,
                 IF pluginResponse.present THEN pluginResponse ELSE response,
                 Append(invoked, [plugin |-> plugins[i], returned |-> pluginResponse]))
    ELSE pluginLoopLastWins(i + 1, channel, returns, response, invoked)

\* The loop leaving at the first answer.
RECURSIVE pluginLoopBreaks(_, _, _, _, _)
pluginLoopBreaks(i, channel, returns, response, invoked) ==
    IF i > Len(plugins) \/ response.present
    THEN [response |-> response, invoked |-> invoked]
    ELSE IF isPluginEnabled(plugins[i], channel)
    THEN LET pluginResponse == returns[plugins[i]]
         IN  pluginLoopBreaks(i + 1, channel, returns,
                 IF pluginResponse.present THEN pluginResponse ELSE response,
                 Append(invoked, [plugin |-> plugins[i], returned |-> pluginResponse]))
    ELSE pluginLoopBreaks(i + 1, channel, returns, response, invoked)

RECURSIVE pluginLoop(_, _, _, _, _)
pluginLoop(i, channel, returns, response, invoked) ==
    IF i > Len(plugins) THEN [response |-> response, invoked |-> invoked]
    ELSE IF isPluginEnabled(plugins[i], channel)
    THEN LET pluginResponse == returns[plugins[i]]
         IN  pluginLoop(i + 1, channel, returns,
                 IF ~response.present /\ pluginResponse.present
                 THEN pluginResponse ELSE response,
                 Append(invoked, [plugin |-> plugins[i], returned |-> pluginResponse]))
    ELSE pluginLoop(i + 1, channel, returns, response, invoked)

\* --------------------------------------------------------- reconciliation
\* The segments of handleEvent between two awaits work on
\*   s = [t: the task, h: the arrays, r: this.responses, d: deleted ids].
Arr(s) == s.h[s.t.sentMessages]
SetArr(s, arr) == [s EXCEPT !.h[s.t.sentMessages] = arr]

\* this.logger.error('Saiko#enablePlugins', msg, error)
LogError(s, msg) == [s EXCEPT !.t.errors = Append(@, msg)]

\* Calls a transport operation and suspends the task at `pc`.
Await(s, op, target, arg, pc, index) ==
    [s EXCEPT !.t.pc = pc, !.t.index = index,
              !.t.calls = Append(@, [op |-> op, target |-> target, arg |-> arg,
                                     result |-> "pending", ret |-> Hole,
                                     stale |-> target.id \in s.d])]

\* The call the task is waiting for comes back.
Settle(s, result, ret) ==
    [s EXCEPT !.t.calls[Len(s.t.calls)].result = result,
              !.t.calls[Len(s.t.calls)].ret = ret]

\* The write at the end made under the id of another trigger message.
FinishUnderOtherKey(s) ==
    [s EXCEPT !.r[CHOOSE id \in TriggerIds : id # s.t.message] = s.t.sentMessages,
              !.t.pc = "done"]

\* The write at the end left out when the sequence is empty.
FinishSkipsEmpty(s) ==
    [s EXCEPT !.r[s.t.message] = IF Arr(s) = <<>> THEN @ ELSE s.t.sentMessages,
              !.t.pc = "done"]

\* The write at the end keeping an entry another task stored meanwhile.
FinishKeepsEntry(s) ==
    [s EXCEPT !.r[s.t.message] = IF @ = 0 THEN s.t.sentMessages ELSE @, !.t.pc = "done"]

\* this.responses.set(message.id, sentMessages), then the handler ends
Finish(s) == [s EXCEPT !.r[s.t.message] = s.t.sentMessages, !.t.pc = "done"]

\* The handler storing its sequence also when it has no response.
ReturnStoresEntry(s) == Finish(s)

\* the handler ends without a response
Return(s) == [s EXCEPT !.t.pc = "done"]

\* for (const post of response.posts) try { await channel.send(...post) ...
SendLoop(s, i) ==
    IF i <= Len(s.t.response.posts)
    THEN Await(s, "send", Hole, s.t.response.posts[i], "send", i)
    ELSE Finish(s)

\* for (const [index, post] of response.edits.entries())
\*     await sentMessages[index].edit(...post)
EditLoop(s, i) ==
    IF i <= Len(s.t.response.edits)
    THEN IF i > Len(Arr(s)) \/ Arr(s)[i] = Hole
         THEN \* TypeError on undefined, caught by the try around the loop
              SendLoop(LogError(s, "Cannot edit a message"), 1)
         ELSE Await(s, "edit", Arr(s)[i], s.t.response.edits[i], "edit", i)
    ELSE SendLoop(s, 1)

\* The trimming loop deleting from the head of the array.
TrimLoopHead(s) ==
    IF Len(Arr(s)) > Len(s.t.response.edits)
    THEN IF Arr(s)[1] = Hole
         THEN EditLoop(LogError(s, "Cannot delete a message"), 1)
         ELSE Await(s, "delete", Arr(s)[1], "", "trim", 0)
    ELSE EditLoop(s, 1)

\* while (sentMessages.length > response.edits.length)
\*     await sentMessages[sentMessages.length - 1].delete()
TrimLoop(s) ==
    IF Len(Arr(s)) > Len(s.t.response.edits)
    THEN IF Arr(s)[Len(Arr(s))] = Hole
         THEN EditLoop(LogError(s, "Cannot delete a message"), 1)
         ELSE Await(s, "delete", Arr(s)[Len(Arr(s))], "", "trim", 0)
    ELSE EditLoop(s, 1)

\* The edits put in front of the posts.
EditsBeforePosts(s) ==
    SendLoop([s EXCEPT !.t.response.posts = s.t.response.edits \o @], 1)

\* for (const post of response.edits) response.posts.push(post)
EditsToPosts(s) ==
    SendLoop([s EXCEPT !.t.response.posts = @ \o s.t.response.edits], 1)

\* while (sentMessages.length > 0) await sentMessages[0].delete()   (l. 271)
WipeLoop(s) ==
    IF Len(Arr(s)) > 0
    THEN IF Arr(s)[1] = Hole
         THEN EditsToPosts(LogError(s, "Cannot delete a message"))
         ELSE Await(s, "delete", Arr(s)[1], "", "wipe", 0)
    ELSE EditsToPosts(s)

\* if (response) { ... }   (l. 263)
ProcessResponse(s) ==
    IF s.t.response.present
    THEN IF Len(s.t.response.edits) > 0
         THEN IF Len(s.t.response.edits) > Len(Arr(s))
              THEN WipeLoop(s)
              ELSE TrimLoop(s)
         ELSE SendLoop(s, 1)
    ELSE Return(s)

\* while (sentMessages.length > 0) await sentMessages[0].delete()   (l. 255)
ClearLoop(s) ==
    IF Len(Arr(s)) > 0
    THEN IF Arr(s)[1] = Hole
         THEN ProcessResponse(LogError(s, "Cannot delete a message"))
         ELSE Await(s, "delete", Arr(s)[1], "", "clear", 0)
    ELSE ProcessResponse(s)

\* !(response || {}).edits: an array, the empty one included, is truthy, so
\* this holds only when there is no response at all.
NoEdits(response) ==
    LET edits == IF response.present THEN <<"array", response.edits>> ELSE <<"undefined">>
    IN  edits[1] = "undefined"

\* The condition without its messageUpdate half.
ShouldClearOnDeleteOnly(eventName, response) ==
    eventName = "messageDelete" /\ NoEdits(response)

\* the condition of l. 252-253
ShouldClear(eventName, response) ==
    \/ eventName = "messageDelete" /\ NoEdits(response)
    \/ eventName = "messageUpdate" /\ ~response.present

\* A task is running from its event to the end of the handler.
Running(k) == task[k].pc \notin {"idle", "done"}

\* `|| []`: a new array, under a name nothing refers to.
NewArray ==
    CHOOSE a \in ArrayIds :
        /\ \A id \in TriggerIds : responses[id] # a
        /\ \A k \in Tasks : Running(k) => task[k].sentMessages # a
        /\ \A b \in ArrayIds :
               (/\ \A id \in TriggerIds : responses[id] # b
                /\ \A k \in Tasks : Running(k) => task[k].sentMessages # b) => a <= b

\* The whole of handleEvent up to its first await.
Begin(eventName, message, returns) ==
    LET d == pluginLoop(1, message.channel, returns, Null, <<>>)
        ref == IF responses[message.id] # 0 THEN responses[message.id] ELSE NewArray
        t == [ pc |-> "run", eventName |-> eventName, message |-> message.id,
               channel |-> message.channel, response |-> d.response,
               sentMessages |-> ref, index |-> 0, invoked |-> d.invoked,
               handed |-> d.response,
               before |-> IF responses[message.id] # 0 THEN heap[ref] ELSE <<>>,
               calls |-> <<>>, errors |-> <<>> ]
        s == [t |-> t, h |-> heap, r |-> responses, d |-> deleted]
    IN  IF ShouldClear(eventName, d.response) THEN ClearLoop(s) ELSE ProcessResponse(s)

\* sentMessages.shift() / sentMessages.pop(): nothing happens on an empty array
Shift(arr) == IF arr = <<>> THEN arr ELSE Tail(arr)
Pop(arr) == IF arr = <<>> THEN arr ELSE SubSeq(arr, 1, Len(arr) - 1)

\* The head shifted off whether its delete succeeded or not.
AfterClearShiftsAnyway(s, ok) ==
    IF ok THEN ClearLoop(SetArr(s, Shift(Arr(s))))
    ELSE ProcessResponse(LogError(SetArr(s, Shift(Arr(s))), "Cannot delete a message"))

\* after `await sentMessages[0].delete()` of l. 256
AfterClear(s, ok) ==
    IF ok THEN ClearLoop(SetArr(s, Shift(Arr(s))))
    ELSE ProcessResponse(LogError(s, "Cannot delete a message"))

\* after `await sentMessages[0].delete()` of l. 272
AfterWipe(s, ok) ==
    IF ok THEN WipeLoop(SetArr(s, Shift(Arr(s))))
    ELSE EditsToPosts(LogError(s, "Cannot delete a message"))

\* after `await sentMessages[sentMessages.length - 1].delete()` of l. 285
AfterTrim(s, ok) ==
    IF ok THEN TrimLoop(SetArr(s, Pop(Arr(s))))
    ELSE EditLoop(LogError(s, "Cannot delete a message"), 1)

\* A failed edit that nothing catches: the error leaves handleEvent, which
\* never reaches its end.
AfterEditThrows(s, ok, sentMessage) ==
    IF ok THEN EditLoop(SetArr(s, SetAt(Arr(s), s.t.index, sentMessage)), s.t.index + 1)
    ELSE [s EXCEPT !.t.pc = "threw"]

\* A failed edit ending the handler: the posts are not sent.
AfterEditAborts(s, ok, sentMessage) ==
    IF ok THEN EditLoop(SetArr(s, SetAt(Arr(s), s.t.index, sentMessage)), s.t.index + 1)
    ELSE Finish(LogError(s, "Cannot edit a message"))

\* after `await sentMessages[index].edit(...post)` of l. 294
AfterEdit(s, ok, sentMessage) ==
    IF ok THEN EditLoop(SetArr(s, SetAt(Arr(s), s.t.index, sentMessage)), s.t.index + 1)
    ELSE SendLoop(LogError(s, "Cannot edit a message"), 1)

\* A failed send ending the handler's send loop.
AfterSendAborts(s, ok, sentMessage) ==
    IF ok THEN SendLoop(SetArr(s, Append(Arr(s), sentMessage)), s.t.index + 1)
    ELSE Finish(LogError(s, "Cannot send a message"))

\* The new message put at the head of the array.
AfterSendUnshift(s, ok, sentMessage) ==
    IF ok THEN SendLoop(SetArr(s, <<sentMessage>> \o Arr(s)), s.t.index + 1)
    ELSE SendLoop(LogError(s, "Cannot send a message"), s.t.index + 1)

\* after `await channel.send(...post)` of l. 305
AfterSend(s, ok, sentMessage) ==
    IF ok THEN SendLoop(SetArr(s, Append(Arr(s), sentMessage)), s.t.index + 1)
    ELSE SendLoop(LogError(s, "Cannot send a message"), s.t.index + 1)

\* ------------------------------------------------------------- transport
\* this.responses.get(id) || []: the ledger sequence of a trigger
Ledger(id) == IF responses[id] # 0 THEN heap[responses[id]] ELSE <<>>

\* this.responses.has(id)
HasEntry(id) == responses[id] # 0

\* The bot messages sent for trigger `id` that are still in the channel.
Visible(id) == {i \in 1..Len(sent) : sent[i] = id /\ i \notin deleted}

Pending(k) == task[k].calls[Len(task[k].calls)]

\* The outcomes a call on `target` may have: a call on a message that is gone
\* is rejected; any call may fail, at most MaxFailures times in a run.
Outcome(target, ok) ==
    IF ok THEN target.id \notin deleted
    ELSE target.id \in deleted \/ failures < MaxFailures

\* An edit may also have been applied before the message went, its answer
\* arriving after.
EditOutcome(call, ok) ==
    IF ok THEN ~call.stale
    ELSE call.target.id \in deleted \/ failures < MaxFailures

Injected(target, ok) == IF ~ok /\ target.id \notin deleted THEN 1 ELSE 0

\* The task's segment ends: its locals, the arrays and the ledger are as the
\* segment left them; arrays nothing refers to any more are forgotten.
Commit(k, s) ==
    LET live(a) == \/ \E id \in TriggerIds : s.r[id] = a
                   \/ \E j \in Tasks \ {k} : Running(j) /\ task[j].sentMessages = a
                   \/ s.t.pc # "done" /\ s.t.sentMessages = a
    IN  /\ task' = [task EXCEPT ![k] = s.t]
        /\ heap' = [a \in ArrayIds |-> IF live(a) THEN s.h[a] ELSE <<>>]
        /\ responses' = s.r

State(k, d) == [t |-> task[k], h |-> heap, r |-> responses, d |-> d]

\* Sends a running task may still issue.
Remaining(t) ==
    CASE t.pc = "wipe" -> Len(t.response.posts) + Len(t.response.edits)
      [] t.pc \in {"trim", "edit"} -> Len(t.response.posts)
      [] t.pc = "send" -> Len(t.response.posts) - t.index + 1
      [] OTHER -> 0

RECURSIVE SumRemaining(_)
SumRemaining(ks) ==
    IF ks = {} THEN 0
    ELSE LET k == CHOOSE k \in ks : TRUE
         IN  Remaining(task[k]) + SumRemaining(ks \ {k})

\* What the handlers may answer to an event in `channel`: one answer for each
\* plugin, null for the plugins that cannot be asked there.
PluginNames == {PluginFiles[i] : i \in DOMAIN PluginFiles}
RECURSIVE AnswerSets(_, _)
AnswerSets(names, asked) ==
    IF names = {} THEN {<<>>}
    ELSE LET p == CHOOSE p \in names : TRUE
         IN  {(p :> a) @@ r : a \in (IF p \in asked THEN Answers(p) ELSE {Null}),
                              r \in AnswerSets(names \ {p}, asked)}
HandlerReturns(channel) ==
    AnswerSets(PluginNames, {p \in PluginNames : isPluginEnabled(p, channel)})

\* --------------------------------------------------------------- actions
\* client.on(eventName, ...): an event arrives and handleEvent runs up to its
\* first await, as task k.
handleEvent(k, eventName, message) ==
    /\ phase = "running"
    /\ nevents < MaxEvents
    /\ ~Running(k) /\ \A j \in Tasks : j < k => Running(j)
    /\ nevents' = nevents + 1
    /\ \E returns \in HandlerReturns(message.channel) :
           LET s == Begin(eventName, message, returns)
           IN  /\ Len(sent) + SumRemaining(Tasks \ {k}) + Remaining(s.t) <= MaxMessages
               /\ Commit(k, s)
    /\ UNCHANGED <<phase, data, plugins, sent, deleted, failures, query>>

\* message.delete() settles
deleteReturned(k, ok) ==
    /\ task[k].pc \in {"clear", "wipe", "trim"}
    /\ Outcome(Pending(k).target, ok)
    /\ LET d == IF ok THEN deleted \cup {Pending(k).target.id} ELSE deleted
           s == Settle(State(k, d), IF ok THEN "ok" ELSE "error", Hole)
       IN  /\ deleted' = d
           /\ Commit(k, CASE task[k].pc = "clear" -> AfterClear(s, ok)
                          [] task[k].pc = "wipe" -> AfterWipe(s, ok)
                          [] task[k].pc = "trim" -> AfterTrim(s, ok))
    /\ failures' = failures + Injected(Pending(k).target, ok)
    /\ UNCHANGED <<phase, data, plugins, nevents, sent, query>>

\* message.edit(content) settles: the handle it gives is the message with its
\* new content
editReturned(k, ok) ==
    /\ task[k].pc = "edit"
    /\ EditOutcome(Pending(k), ok)
    /\ LET sentMessage == IF ok THEN Handle(Pending(k).target.id, Pending(k).arg) ELSE Hole
           s == Settle(State(k, deleted), IF ok THEN "ok" ELSE "error", sentMessage)
       IN  Commit(k, AfterEdit(s, ok, sentMessage))
    /\ failures' = failures + Injected(Pending(k).target, ok)
    /\ UNCHANGED <<phase, data, plugins, nevents, sent, deleted, query>>

\* channel.send(content) settles: the handle it gives is a new message
sendReturned(k, ok) ==
    /\ task[k].pc = "send"
    /\ Outcome(Hole, ok)
    /\ LET sentMessage == IF ok THEN Handle(Len(sent) + 1, Pending(k).arg) ELSE Hole
           s == Settle(State(k, deleted), IF ok THEN "ok" ELSE "error", sentMessage)
       IN  Commit(k, AfterSend(s, ok, sentMessage))
    /\ sent' = IF ok THEN Append(sent, task[k].message) ELSE sent
    /\ failures' = failures + Injected(Hole, ok)
    /\ UNCHANGED <<phase, data, plugins, nevents, deleted, query>>

Next ==
    \/ \E raw \in DataChoices : loadData(raw)
    \/ loadPlugins
    \/ enablePlugins
    \/ \E k \in Tasks, eventName \in eventNames, message \in Messages :
           handleEvent(k, eventName, message)
    \/ \E k \in Tasks, ok \in BOOLEAN : deleteReturned(k, ok)
    \/ \E k \in Tasks, ok \in BOOLEAN : editReturned(k, ok)
    \/ \E k \in Tasks, ok \in BOOLEAN : sendReturned(k, ok)

\* Events may arrive while earlier ones are still being reconciled.
Spec == Init /\ [][Next]_vars

\* ---------------------------------------------- the resolver on its own
\* What one configuration layer may say about plugin p1: nothing at all, no
\* plugins mapping, no fragment, a fragment without `enabled`, or `enabled`
\* set to true, false, the string "true" or the number 1.
LayerChoices ==
    { Undefined, EmptyObj, Obj("plugins" :> EmptyObj),
      Obj("plugins" :> Obj("p1" :> EmptyObj)),
      Obj("plugins" :> Obj("p1" :> Obj("mode" :> Val("quiet")))),
      Obj("plugins" :> Obj("p2" :> Obj("enabled" :> True))) }
    \cup { Obj("plugins" :> Obj("p1" :> Obj("enabled" :> v))) :
              v \in {True, False, Val("'true'"), Val("1")} }

\* key: layer, or nothing when the layer is undefined
Entry(key, layer) == IF layer = Undefined THEN <<>> ELSE key :> layer

\* data.json with the three layers given
Layered(defaults, guild, channel) ==
    Obj( "token" :> Val("secret")
      @@ Entry("defaults", defaults)
      @@ "guilds" :> Obj(Entry("g1", guild))
      @@ "channels" :> Obj(Entry("c1", channel) @@ Entry("c2", channel)
                           @@ Entry("c3", channel)) )

LayeredData == {Layered(d, g, c) : d \in LayerChoices, g \in LayerChoices, c \in LayerChoices}

\* Saiko#isPluginEnabled is asked about a plugin in a place
askPluginEnabled(plugin, place) ==
    /\ phase = "dataLoaded"
    /\ query' = [plugin |-> plugin, place |-> place, enabled |-> isPluginEnabled(plugin, place),
                 config |-> getPluginConfig(plugin, place)]
    /\ UNCHANGED <<phase, data, plugins, responses, heap, task, nevents, sent, deleted, failures>>

\* Saiko#getChannelConfig is asked about a channel
askChannelConfig(channel) ==
    /\ phase = "dataLoaded"
    /\ query' = [plugin |-> "", place |-> channel, enabled |-> FALSE,
                 config |-> getChannelConfig(channel)]
    /\ UNCHANGED <<phase, data, plugins, responses, heap, task, nevents, sent, deleted, failures>>

NextConfig ==
    \/ \E raw \in LayeredData : loadData(raw)
    \/ \E plugin \in {"p1", "p2"}, place \in Places : askPluginEnabled(plugin, place)
    \/ \E channel \in Channels : askChannelConfig(channel)

\* The resolver asked about any plugin and place, over any layered data.
ConfigSpec == Init /\ [][NextConfig]_vars

\* No handleEvent task is between its event and the end of the handler.
Quiet == \A k \in Tasks : ~Running(k)

NextSeq ==
    \/ \E raw \in DataChoices : loadData(raw)
    \/ loadPlugins
    \/ enablePlugins
    \/ \E k \in Tasks, eventName \in eventNames, message \in Messages :
           Quiet /\ handleEvent(k, eventName, message)
    \/ \E k \in Tasks, ok \in BOOLEAN : deleteReturned(k, ok)
    \/ \E k \in Tasks, ok \in BOOLEAN : editReturned(k, ok)
    \/ \E k \in Tasks, ok \in BOOLEAN : sendReturned(k, ok)

\* Events arrive one at a time: each is reconciled before the next arrives.
SeqSpec == Init /\ [][NextSeq]_vars

\* The transport call task k is waiting for comes back, one way or the other.
transportReturns(k) ==
    \E ok \in BOOLEAN : deleteReturned(k, ok) \/ editReturned(k, ok) \/ sendReturned(k, ok)

\* The events all refer to the same trigger message.
NextSameTrigger ==
    \/ \E raw \in DataChoices : loadData(raw)
    \/ loadPlugins
    \/ enablePlugins
    \/ \E k \in Tasks, eventName \in eventNames :
           handleEvent(k, eventName, CHOOSE message \in Messages : message.id = "t2")
    \/ \E k \in Tasks : transportReturns(k)

\* Interleaved tasks for one trigger, every transport call coming back in the
\* end.
FairSpec ==
    Init /\ [][NextSameTrigger]_vars /\ \A k \in Tasks : WF_vars(transportReturns(k))

\* ------------------------------------------------------------------ claims
Started(k) == task[k].pc # "idle"
Finished(k) == task[k].pc = "done"

\* C1: whenever no reconciliation is mid-flight, the ledger sequence of every
\* trigger is as long as the number of bot messages sent for that trigger that
\* are still visible.
C1_LedgerLengthIsVisibleCount ==
    Quiet => \A id \in TriggerIds : Len(Ledger(id)) = Cardinality(Visible(id))

\* The handlers a task invoked that answered with a response.
Answered(k) == {i \in 1..Len(task[k].invoked) : task[k].invoked[i].returned.present}

\* C2: the response handed to reconciliation is the answer of the first
\* invoked handler that gave one, and null only if every handler gave null.
C2_FirstResponseWins ==
    \A k \in Tasks : Started(k) =>
        IF Answered(k) = {} THEN ~task[k].handed.present
        ELSE \E i \in Answered(k) :
                /\ \A j \in Answered(k) : i <= j
                /\ task[k].handed = task[k].invoked[i].returned

\* C2 witness: two handlers answered and the first one's answer was handed on.
C2_Witness ==
    \E k \in Tasks :
        /\ Cardinality(Answered(k)) = 2
        /\ task[k].handed = task[k].invoked[1].returned
        /\ task[k].handed # task[k].invoked[2].returned

\* C3: the handlers invoked for an event are exactly the plugins of the
\* registry enabled in the message's channel, in registration order, each
\* once, whatever the earlier handlers answered.
C3_InvokesEnabledInOrder ==
    \A k \in Tasks : Started(k) =>
        LET names == [i \in 1..Len(task[k].invoked) |-> task[k].invoked[i].plugin]
            enabled == {i \in 1..Len(plugins) : Get(getPluginConfig(plugins[i], task[k].channel), "enabled") = True}
        IN  /\ Len(names) = Cardinality(enabled)
            /\ \A i \in enabled :
                   names[Cardinality({j \in enabled : j <= i})] = plugins[i]

\* C3 witness: a handler is invoked after an earlier one answered, in a
\* channel where another plugin of the registry is disabled.
C3_Witness ==
    \E k \in Tasks :
        /\ Len(task[k].invoked) = 2
        /\ task[k].invoked[1].returned.present
        /\ Len(plugins) = 3

\* The transport calls of a task, and those of one kind.
Calls(k) == task[k].calls
CallsOf(k, op) == SelectSeq(Calls(k), LAMBDA c : c.op = op)

\* No call of the task failed (its last call may still be awaited).
NoFailure(k) == \A i \in 1..Len(Calls(k)) : Calls(k)[i].result # "error"

\* The handles given by the calls i+1 .. i+n of the task.
Rets(k, i, n) == [j \in 1..n |-> Calls(k)[i + j].ret]

\* C4: pure growth.  The ledger has no message for the trigger, the response
\* has posts P1..Pn and no edits, every send succeeds: the calls are exactly n
\* sends, in post order, and the ledger sequence becomes the n handles given
\* by them, in that order.
C4_PureGrowth ==
    \A k \in Tasks :
        LET t == task[k]
            n == Len(t.handed.posts)
        IN  (/\ Finished(k) /\ NoFailure(k)
             /\ t.before = <<>>
             /\ t.handed.present /\ t.handed.edits = <<>>)
            => /\ Len(Calls(k)) = n
               /\ \A i \in 1..n :
                      /\ Calls(k)[i].op = "send"
                      /\ Calls(k)[i].arg = t.handed.posts[i]
                      /\ Calls(k)[i].ret.content = t.handed.posts[i]
                      /\ \A j \in 1..n : i # j => Calls(k)[i].ret.id # Calls(k)[j].ret.id
               /\ Ledger(t.message) = Rets(k, 0, n)

\* C4 witness: a response of two posts and no edits reconciled against an
\* empty ledger, both sends succeeding.
C4_Witness ==
    \E k \in Tasks :
        /\ Finished(k) /\ NoFailure(k)
        /\ task[k].before = <<>>
        /\ task[k].handed.edits = <<>> /\ Len(task[k].handed.posts) = 2
        /\ Len(Ledger(task[k].message)) = 2

\* C5: edit shrink.  The response has k >= 1 edits, the ledger sequence has
\* n >= k messages and no call fails: the calls start with n-k deletes on
\* sent[n-1] down to sent[k], followed by the edits of sent[i] with edits[i]
\* for i = 0..k-1 in increasing order; once the edits are done the ledger
\* sequence is the k handles given by the edits, followed by the handles of
\* the posts sent since.
C5_EditShrink ==
    \A k \in Tasks :
        LET t == task[k]
            e == Len(t.handed.edits)
            n == Len(t.before)
        IN  (/\ Started(k) /\ NoFailure(k)
             /\ t.handed.present /\ e >= 1 /\ n >= e)
            => /\ \A i \in 1..Len(Calls(k)) :
                      /\ i <= n - e =>
                            /\ Calls(k)[i].op = "delete"
                            /\ Calls(k)[i].target = t.before[n + 1 - i]
                      /\ (i > n - e /\ i <= n) =>
                            /\ Calls(k)[i].op = "edit"
                            /\ Calls(k)[i].target = t.before[i - (n - e)]
                            /\ Calls(k)[i].arg = t.handed.edits[i - (n - e)]
                      /\ i > n => Calls(k)[i].op = "send"
               /\ t.pc \in {"send", "done"} =>
                      /\ Len(Calls(k)) >= n
                      /\ Len(CallsOf(k, "delete")) = n - e
                      /\ Len(CallsOf(k, "edit")) = e
                      /\ \A i \in 1..e :
                            /\ Ledger(t.message)[i] = Calls(k)[n - e + i].ret
                            /\ Calls(k)[n - e + i].ret = Handle(t.before[i].id, t.handed.edits[i])
                      /\ Len(Ledger(t.message)) =
                            e + Len(SelectSeq(Calls(k), LAMBDA c : c.op = "send" /\ c.result = "ok"))

\* C5 witness: three messages cut down to one: two deletes, tail first, then
\* one edit.
C5_Witness ==
    \E k \in Tasks :
        /\ Finished(k) /\ NoFailure(k)
        /\ Len(task[k].before) = 3 /\ Len(task[k].handed.edits) = 1
        /\ Len(CallsOf(k, "delete")) = 2
        /\ Len(CallsOf(k, "edit")) = 1
        /\ Len(Ledger(task[k].message)) = 1 + Len(task[k].handed.posts)

\* C5 witness for the order of the edits: two messages edited in place.
C5_WitnessTwoEdits ==
    \E k \in Tasks :
        /\ Finished(k) /\ NoFailure(k)
        /\ Len(task[k].before) >= 2
        /\ Len(CallsOf(k, "edit")) = 2

\* C6: edit overflow.  The response has more edits than the ledger sequence
\* has messages and no call fails: every message of the sequence is deleted,
\* head first, no edit is issued, the posts of the response are sent followed
\* by its edits, and the ledger sequence ends as the handles of these new
\* messages alone.
C6_EditOverflow ==
    \A k \in Tasks :
        LET t == task[k]
            n == Len(t.before)
            new == t.handed.posts \o t.handed.edits
        IN  (/\ Finished(k) /\ NoFailure(k)
             /\ t.handed.present /\ Len(t.handed.edits) > n)
            => /\ Len(Calls(k)) = n + Len(new)
               /\ \A i \in 1..n :
                      /\ Calls(k)[i].op = "delete"
                      /\ Calls(k)[i].target = t.before[i]
               /\ \A i \in 1..Len(new) :
                      /\ Calls(k)[n + i].op = "send"
                      /\ Calls(k)[n + i].arg = new[i]
                      /\ Calls(k)[n + i].ret.content = new[i]
               /\ Ledger(t.message) = Rets(k, n, Len(new))
               /\ \A i \in 1..Len(new), j \in 1..n :
                      Ledger(t.message)[i].id # t.before[j].id

\* C6 witness: one message in the ledger, a response of one post and two
\* edits: one delete, three sends.
C6_Witness ==
    \E k \in Tasks :
        /\ Finished(k) /\ NoFailure(k)
        /\ Len(task[k].before) = 1
        /\ Len(task[k].handed.edits) = 2 /\ Len(task[k].handed.posts) = 1
        /\ Len(Ledger(task[k].message)) = 3

\* C6 witness for the order of the deletes: two messages in the ledger, a
\* response of three edits: two deletes, head first, three sends.
C6_WitnessHeadFirst ==
    \E k \in Tasks :
        /\ Finished(k) /\ NoFailure(k)
        /\ Len(task[k].before) = 2
        /\ Len(task[k].handed.edits) = 3
        /\ Len(CallsOf(k, "delete")) = 2
        /\ Len(Ledger(task[k].message)) = 3

\* The case of C7: a messageDelete or messageUpdate event without a response,
\* reconciled without a failure.
ClearedWithoutResponse(k) ==
    /\ Finished(k) /\ NoFailure(k)
    /\ task[k].eventName \in {"messageDelete", "messageUpdate"}
    /\ ~task[k].handed.present

\* Every message of the ledger sequence was deleted, in ledger order, and
\* nothing else was called.
DeletedAllInOrder(k) ==
    /\ Len(Calls(k)) = Len(task[k].before)
    /\ \A i \in 1..Len(Calls(k)) :
           /\ Calls(k)[i].op = "delete"
           /\ Calls(k)[i].target = task[k].before[i]
           /\ Calls(k)[i].target.id \in deleted

\* C7 as claimed: ... and afterwards the ledger entry of the trigger is
\* removed.
C7_EntryRemoved ==
    \A k \in Tasks : ClearedWithoutResponse(k) =>
        /\ DeletedAllInOrder(k)
        /\ ~HasEntry(task[k].message)

\* C7: when a messageDelete or messageUpdate event yields no response and all
\* deletes succeed, every message of the trigger's ledger sequence is deleted
\* in ledger order, no send or edit is issued, and afterwards the ledger
\* sequence of the trigger is empty; the entry itself stays in the ledger.
C7_LedgerEmptied ==
    \A k \in Tasks : ClearedWithoutResponse(k) =>
        /\ DeletedAllInOrder(k)
        /\ Ledger(task[k].message) = <<>>
        /\ task[k].before # <<>> => HasEntry(task[k].message)

\* C7 witness: two messages deleted after an event without a response.
C7_Witness ==
    \E k \in Tasks :
        /\ ClearedWithoutResponse(k)
        /\ Len(task[k].before) = 2
        /\ Len(CallsOf(k, "delete")) = 2
        /\ HasEntry(task[k].message)

\* C8 as claimed: on a messageDelete event whose response is present with an
\* empty edits sequence, every message of the trigger's ledger sequence is
\* deleted and leaves the ledger.
C8_DeleteWithoutEditsClears ==
    \A k \in Tasks :
        (/\ Finished(k) /\ NoFailure(k)
         /\ task[k].eventName = "messageDelete"
         /\ task[k].handed.present /\ task[k].handed.edits = <<>>)
        => \A i \in 1..Len(task[k].before) :
               /\ task[k].before[i].id \in deleted
               /\ \A j \in 1..Len(Ledger(task[k].message)) :
                      Ledger(task[k].message)[j].id # task[k].before[i].id

\* The final posts of a task's response (its edits included after an
\* overflow) were all handed to channel.send, once each, in order.
AllPostsAttempted(k) ==
    /\ Len(CallsOf(k, "send")) = Len(task[k].response.posts)
    /\ \A i \in 1..Len(CallsOf(k, "send")) :
           CallsOf(k, "send")[i].arg = task[k].response.posts[i]

\* The deletes a reconciliation has to make, given the ledger it found.
DeletesDue(k) ==
    LET t == task[k]
    IN  IF ~t.handed.present THEN
            (IF t.eventName = "message" THEN 0 ELSE Len(t.before))
        ELSE IF Len(t.handed.edits) = 0 THEN 0
        ELSE IF Len(t.handed.edits) > Len(t.before) THEN Len(t.before)
        ELSE Len(t.before) - Len(t.handed.edits)

\* The edits a reconciliation has to make.
EditsDue(k) ==
    LET t == task[k]
    IN  IF t.handed.present /\ Len(t.handed.edits) <= Len(t.before)
        THEN Len(t.handed.edits) ELSE 0

\* C9 as claimed: a failed delete, edit or send does not abort the remaining
\* calls of its phase: every delete, edit and send the reconciliation has to
\* make is attempted.
C9_EveryCallAttempted ==
    \A k \in Tasks : Finished(k) =>
        /\ Len(CallsOf(k, "delete")) = DeletesDue(k)
        /\ Len(CallsOf(k, "edit")) = EditsDue(k)
        /\ task[k].handed.present => AllPostsAttempted(k)

\* C9: a failed send does not abort the remaining sends: every post is
\* still attempted, in order.  A failed delete ends its delete loop and a
\* failed edit ends the edit loop (the calls left in that loop are not
\* attempted), but the reconciliation goes on with its next phase: the edits
\* after a failed delete of the trimming loop, the sends after any failure.
C9_FailureEndsLoopOnly ==
    \A k \in Tasks :
        /\ \A i, j \in 1..Len(Calls(k)) :
               (/\ i < j
                /\ Calls(k)[i].result = "error"
                /\ Calls(k)[i].op \in {"delete", "edit"})
               => Calls(k)[j].op # Calls(k)[i].op
        /\ Finished(k) /\ task[k].handed.present =>
               /\ AllPostsAttempted(k)
               /\ (EditsDue(k) > 0 /\ Calls(k)[1].op = "delete") =>
                      Len(CallsOf(k, "edit")) >= 1

\* C9 witness: the first of two deletes failed, the second message was not
\* attempted, and the three posts were sent all the same.
C9_Witness ==
    \E k \in Tasks :
        /\ Finished(k)
        /\ Len(task[k].before) = 2 /\ DeletesDue(k) = 2
        /\ Len(CallsOf(k, "delete")) = 1
        /\ Calls(k)[1].result = "error"
        /\ Len(CallsOf(k, "send")) = 3

\* C9 witness for the sends: a failed send followed by a send that succeeded.
C9_WitnessSend ==
    \E k \in Tasks : \E i \in 1..Len(Calls(k)) :
        /\ i < Len(Calls(k))
        /\ Calls(k)[i].op = "send" /\ Calls(k)[i].result = "error"
        /\ Calls(k)[i + 1].op = "send" /\ Calls(k)[i + 1].result = "ok"

\* C9 witness for the trimming loop: its delete failed and the edit was
\* attempted all the same.
C9_WitnessTrim ==
    \E k \in Tasks :
        /\ Finished(k) /\ EditsDue(k) > 0
        /\ Calls(k)[1].op = "delete" /\ Calls(k)[1].result = "error"
        /\ Len(CallsOf(k, "edit")) >= 1

\* What a layer of the store says about `enabled` for a plugin.
LayerSays(layer, plugin) == Get(Get(Get(layer, "plugins"), plugin), "enabled")

\* The layers that count for a place, lowest precedence first.
LayersOf(place) ==
    LET defaults == Get(data, "defaults")
        guild == Get(Get(data, "guilds"), place.guild)
        channel == Get(Get(data, "channels"), place.id)
    IN  IF place.kind = "guild" THEN <<defaults, guild>>
        ELSE IF place.type = "text" THEN <<defaults, guild, channel>>
        ELSE <<defaults, channel>>

\* C10: isPluginEnabled(plugin, place) is true iff the plugin's fragment of
\* the merged place configuration has `enabled` equal to the boolean true,
\* that is iff the last layer of the place that says anything about `enabled`
\* says true: it is false when no layer has the plugins mapping, the fragment
\* or the key, false for the string "true" and the number 1, and a channel
\* layer saying false overrides a guild or defaults layer saying true.
C10_EnabledIffTrue ==
    query.plugin # "" =>
        LET layers == LayersOf(query.place)
            saying == {i \in 1..Len(layers) : LayerSays(layers[i], query.plugin) # Undefined}
        IN  query.enabled <=>
                /\ saying # {}
                /\ \E i \in saying :
                       /\ \A j \in saying : j <= i
                       /\ LayerSays(layers[i], query.plugin) = True

\* C10 witness: the channel layer says false where the guild layer and the
\* defaults say true, and the plugin is not enabled in the channel.
C10_Witness ==
    /\ query.plugin = "p1" /\ query.place = C1 /\ ~query.enabled
    /\ LayerSays(Get(data, "defaults"), "p1") = True
    /\ LayerSays(Get(Get(data, "guilds"), "g1"), "p1") = True
    /\ LayerSays(Get(Get(data, "channels"), "c1"), "p1") = False

\* C10 witness: enabled by the defaults alone.
C10_WitnessEnabled ==
    /\ query.plugin = "p1" /\ query.place = C2 /\ query.enabled
    /\ LayerSays(Get(Get(data, "channels"), "c2"), "p1") = Undefined

\* The nodes of a configuration value: every path to a nested mapping or to a
\* scalar, with the scalar found there.
RECURSIVE Nodes(_, _)
Nodes(x, path) ==
    IF IsObj(x)
    THEN {<<path, "mapping">>} \cup UNION {Nodes(x.m[k], Append(path, k)) : k \in DOMAIN x.m}
    ELSE {<<path, x.v>>}

\* C11: the configuration of a channel is the deep merge of defaults, then
\* guilds[channel.guild.id] only if the channel's kind is text, then
\* channels[channel.id]: at every path it holds what the last of these layers
\* that has the path holds there (the later layer wins a scalar conflict,
\* nested mappings are merged key by key); for a channel that is not text the
\* guild layer contributes nothing, and a missing layer counts as an empty
\* mapping.
C11_ChannelConfigIsDeepMerge ==
    (query.plugin = "" /\ query.place.kind = "channel") =>
        LET found == LayersOf(query.place)
            layers == [i \in 1..Len(found) |->
                          IF found[i] = Undefined THEN EmptyObj ELSE found[i]]
            nodes(i) == Nodes(layers[i], <<>>)
            later(i, path) == \E j \in 1..Len(layers) :
                                  j > i /\ \E n \in nodes(j) : n[1] = path
        IN  /\ Len(layers) = IF query.place.type = "text" THEN 3 ELSE 2
            /\ Nodes(query.config, <<>>) =
                   UNION {{n \in nodes(i) : ~later(i, n[1])} : i \in 1..Len(layers)}

\* C11 witness: in the text channel c1 the channel layer says false where the
\* guild layer says true, the defaults alone turn p2 on, and the merged
\* configuration has both.
C11_Witness ==
    /\ query.plugin = "" /\ query.place = C1
    /\ LayerSays(Get(data, "defaults"), "p2") = True
    /\ LayerSays(Get(Get(data, "guilds"), "g1"), "p1") = True
    /\ LayerSays(Get(Get(data, "channels"), "c1"), "p1") = False
    /\ LayerSays(query.config, "p1") = False
    /\ LayerSays(query.config, "p2") = True

\* C11 witness: in the voice channel c3 of guild g1 the guild layer turns p1
\* on and the merged configuration does not have it; the channel layer is
\* missing.
C11_WitnessNoGuild ==
    /\ query.plugin = "" /\ query.place = C3
    /\ LayerSays(Get(Get(data, "guilds"), "g1"), "p1") = True
    /\ Get(Get(data, "channels"), "c3") = Undefined
    /\ LayerSays(query.config, "p1") = Undefined
    /\ Get(query.config, "plugins") # Undefined

\* The ids of the handles of a sequence, and of the messages a task sent.
IdsIn(arr) == {arr[i].id : i \in 1..Len(arr)}
SentBy(k) == {c.ret.id : c \in {Calls(k)[i] : i \in {i \in 1..Len(Calls(k)) :
                                   Calls(k)[i].op = "send" /\ Calls(k)[i].result = "ok"}}}

\* Two tasks reconciled events of the same trigger, each with a response and
\* each on a sequence of its own: both read the ledger before either wrote it.
Raced(j, k) ==
    /\ j # k
    /\ Started(j) /\ Started(k)
    /\ task[j].message = task[k].message
    /\ task[j].response.present /\ task[k].response.present
    /\ task[j].sentMessages # task[k].sentMessages

\* C12: two tasks for the same trigger may both read the ledger before either
\* writes it; the later write then replaces the earlier one: in every step in
\* which the second of them ends, the ledger sequence of the trigger becomes
\* its sequence and holds none of the messages the first one sent.
C12_LaterWriteOverwrites ==
    [][\A j, k \in Tasks :
          (Raced(j, k) /\ Finished(j) /\ Running(k) /\ Finished(k)')
          => /\ responses'[task[k].message] = task[k].sentMessages
             /\ HasEntry(task[k].message)
             /\ IdsIn(Ledger(task[k].message)') \cap SentBy(j) = {}]_vars

\* C12 witness, the lost update: both tasks found the ledger empty and are
\* done, a message sent by one of them is still visible and is not in the
\* ledger sequence of the trigger, which holds what the other one sent.
C12_Witness ==
    \E j, k \in Tasks :
        /\ Raced(j, k) /\ Finished(j) /\ Finished(k)
        /\ task[j].before = <<>> /\ task[k].before = <<>>
        /\ SentBy(k) # {} /\ SentBy(k) \subseteq IdsIn(Ledger(task[k].message))
        /\ \E i \in SentBy(j) :
               /\ i \in Visible(task[j].message)
               /\ i \notin IdsIn(Ledger(task[j].message))

\* C13: a handle leaves the ledger sequence of its trigger only once the
\* delete call on that handle has succeeded: no step removes a handle whose
\* message is not deleted, so a failed delete leaves the handle it was
\* attempted on, and the handles not yet attempted, in the sequence.
C13_RemovedOnlyAfterDelete ==
    [][\A id \in TriggerIds : \A h \in IdsIn(Ledger(id)) \ {Hole.id} :
          h \notin IdsIn(Ledger(id)') => h \in deleted']_vars

\* The send a task was waiting for settles in this step, with this result.
SendSettles(k, result) ==
    /\ task[k].pc = "send"
    /\ task'[k].calls[Len(task[k].calls)].result = result

\* C14: when the response is present, the handler ends with the ledger
\* holding, under the trigger id, the task's sent sequence, even if that
\* sequence is empty; a send that fails adds no handle to the sequence and a
\* send that succeeds adds exactly one, the handle of the new message carrying
\* that post, at the end of the sequence, the posts being taken in order.
C14_LedgerHoldsSentAtEnd ==
    [][\A k \in Tasks :
          LET t == task'[k]
              ref == t.sentMessages
              call == t.calls[Len(task[k].calls)]
          IN  /\ SendSettles(k, "ok") =>
                     /\ heap'[ref] = Append(heap[ref], call.ret)
                     /\ call.ret.content = task[k].response.posts[task[k].index]
                     /\ call.ret.id \notin IdsIn(heap[ref]) \cup {Hole.id}
              /\ SendSettles(k, "error") => heap'[ref] = heap[ref]
              /\ (SendSettles(k, "ok") \/ SendSettles(k, "error")) =>
                     IF task[k].index < Len(t.response.posts)
                     THEN /\ t.pc = "send" /\ t.index = task[k].index + 1
                          /\ Pending(k)'.arg = t.response.posts[t.index]
                     ELSE t.pc = "done"
              /\ (t # task[k] /\ t.pc = "done" /\ t.response.present) =>
                     /\ responses'[t.message] # 0
                     /\ responses'[t.message] = ref]_vars

\* C14 witness: of two posts the first send failed and the second succeeded;
\* the ledger entry holds the one handle of the second.
C14_Witness ==
    \E k \in Tasks :
        /\ Finished(k) /\ task[k].before = <<>>
        /\ Len(Calls(k)) = 2
        /\ Calls(k)[1].op = "send" /\ Calls(k)[1].result = "error"
        /\ Calls(k)[2].op = "send" /\ Calls(k)[2].result = "ok"
        /\ Ledger(task[k].message) = <<Calls(k)[2].ret>>

\* C14 witness: the only send failed and the ledger has an entry holding the
\* empty sequence.
C14_WitnessEmpty ==
    \E k \in Tasks :
        /\ Finished(k) /\ task[k].response.present
        /\ Len(Calls(k)) = 1 /\ Calls(k)[1].result = "error"
        /\ HasEntry(task[k].message)
        /\ Ledger(task[k].message) = <<>>

\* Task slot k takes a new event in this step.
Delivered(k) ==
    /\ nevents' = nevents + 1
    /\ ~Running(k) /\ \A j \in Tasks : j < k => Running(j)

\* C15: a message-created event to which no enabled plugin answers with a
\* response issues no send, edit or delete call, ends at once and leaves the
\* whole ledger as it was: no entry is created, modified or removed.
C15_CreateWithoutResponseIsNoOp ==
    [][\A k \in Tasks :
          (/\ Delivered(k)
           /\ task'[k].eventName = "message"
           /\ \A i \in 1..Len(task'[k].invoked) : ~task'[k].invoked[i].returned.present)
          => /\ task'[k].pc = "done"
             /\ task'[k].calls = <<>>
             /\ responses' = responses
             /\ \A id \in TriggerIds : HasEntry(id) => heap'[responses[id]] = heap[responses[id]]
             /\ UNCHANGED <<sent, deleted>>]_vars

\* C15 witness: a message-created event for a trigger with two messages in the
\* ledger; two handlers were asked, both answered null, and the task is done
\* without a call, the two messages still in the ledger.
C15_Witness ==
    \E k \in Tasks :
        /\ Finished(k) /\ task[k].eventName = "message"
        /\ Len(task[k].invoked) = 2 /\ Answered(k) = {}
        /\ Calls(k) = <<>>
        /\ Len(task[k].before) = 2
        /\ Ledger(task[k].message) = task[k].before

\* C15 witness: the same for a trigger that has no entry.
C15_WitnessNoEntry ==
    \E k \in Tasks :
        /\ Finished(k) /\ task[k].eventName = "message"
        /\ task[k].invoked # <<>> /\ Answered(k) = {}
        /\ Calls(k) = <<>>
        /\ ~HasEntry(task[k].message)

\* The posts a reconciliation has to send: the posts of the response, followed
\* by its edits when there are more edits than messages in the ledger.
PostsDue(k) ==
    LET t == task[k]
    IN  IF Len(t.handed.edits) > Len(t.before)
        THEN t.handed.posts \o t.handed.edits
        ELSE t.handed.posts

\* C16: the transport calls of one reconciliation come in phase order: every
\* delete before every edit, every delete and edit before every send; and
\* when a response is present the send phase runs whatever failed before it:
\* every post due is handed to channel.send, in order.
C16_PhaseOrder ==
    \A k \in Tasks :
        /\ \A i, j \in 1..Len(Calls(k)) : i < j =>
               /\ Calls(k)[j].op = "delete" => Calls(k)[i].op = "delete"
               /\ Calls(k)[j].op = "edit" => Calls(k)[i].op \in {"delete", "edit"}
        /\ (Finished(k) /\ task[k].handed.present) =>
               /\ Len(CallsOf(k, "send")) = Len(PostsDue(k))
               /\ \A i \in 1..Len(PostsDue(k)) : CallsOf(k, "send")[i].arg = PostsDue(k)[i]

\* C16 witness: a delete, then an edit that failed, then the send of the post.
C16_Witness ==
    \E k \in Tasks :
        /\ Finished(k)
        /\ Len(Calls(k)) = 3
        /\ Calls(k)[1].op = "delete" /\ Calls(k)[1].result = "ok"
        /\ Calls(k)[2].op = "edit" /\ Calls(k)[2].result = "error"
        /\ Calls(k)[3].op = "send" /\ Calls(k)[3].result = "ok"

\* C16 witness: the delete of the trimming loop failed; the edits and the send
\* followed.
C16_WitnessDelete ==
    \E k \in Tasks :
        /\ Finished(k)
        /\ Len(Calls(k)) = 4
        /\ Calls(k)[1].op = "delete" /\ Calls(k)[1].result = "error"
        /\ Len(CallsOf(k, "edit")) = 2
        /\ Len(CallsOf(k, "send")) = 1

\* C17: every reconciliation task that starts finishes in the end, every
\* transport call coming back (with success or failure) and the events being
\* finitely many, whatever the response and the ledger, other tasks for the
\* same trigger interleaving with it or not.
C17_EveryTaskFinishes ==
    \A k \in Tasks : Running(k) ~> Finished(k)

\* C17 witness: two tasks for the same trigger worked on the same sequence,
\* one deleted a message the other was deleting too, and both are done.
C17_Witness ==
    \E j, k \in Tasks :
        /\ j # k /\ Finished(j) /\ Finished(k)
        /\ task[j].message = task[k].message
        /\ task[j].before # <<>> /\ task[j].before = task[k].before
        /\ \E a \in 1..Len(Calls(j)), b \in 1..Len(Calls(k)) :
               /\ Calls(j)[a].op = "delete" /\ Calls(j)[a].result = "ok"
               /\ Calls(k)[b].op = "delete" /\ Calls(k)[b].result = "error"
               /\ Calls(j)[a].target = Calls(k)[b].target

\* C18: with the events reconciled one at a time, after each task and
\* whatever calls failed, the ledger sequence of every trigger holds exactly
\* the handles of the bot messages sent for that trigger and not deleted
\* since, each once.
C18_LedgerIsSentNotDeleted ==
    Quiet => \A id \in TriggerIds :
        /\ IdsIn(Ledger(id)) = {i \in 1..Len(sent) : sent[i] = id /\ i \notin deleted}
        /\ \A i, j \in 1..Len(Ledger(id)) : i # j => Ledger(id)[i].id # Ledger(id)[j].id

\* C18 witness: after three events, one of whose deletes failed, a trigger
\* has lost a message to a delete and keeps two in its ledger sequence.
C18_Witness ==
    /\ Quiet /\ nevents = 3 /\ failures = 1
    /\ \E k \in Tasks : \E i \in 1..Len(Calls(k)) :
           Calls(k)[i].op = "delete" /\ Calls(k)[i].result = "error"
    /\ \E id \in TriggerIds :
           /\ Len(Ledger(id)) = 2
           /\ \E i \in deleted : sent[i] = id

\* C19: no delete or edit call is ever issued on a handle whose message has
\* already been deleted successfully, however the tasks interleave.
C19_NoCallOnDeletedHandle ==
    \A k \in Tasks : \A i \in 1..Len(Calls(k)) :
        Calls(k)[i].op \in {"delete", "edit"} => ~Calls(k)[i].stale

\* Task k runs one of its segments in this step.
Steps(k) == Delivered(k) \/ task'[k] # task[k]

\* C20: the reconciliation of an event for a trigger reads and writes the
\* ledger entry of that trigger only: a step of a task leaves the entry of
\* every other trigger as it was, and every delete or edit call it issues is
\* on a handle of the sequence it took from the entry of its trigger, the
\* handle of a message sent for that trigger.
C20_OnlyOwnEntry ==
    [][\A k \in Tasks : Steps(k) =>
          LET t == task'[k]
              call == t.calls[Len(t.calls)]
          IN  /\ \A id \in TriggerIds \ {t.message} :
                     /\ responses'[id] = responses[id]
                     /\ HasEntry(id) => heap'[responses[id]] = heap[responses[id]]
              /\ t.pc \in {"clear", "wipe", "trim", "edit"} =>
                     /\ call.op \in {"delete", "edit"}
                     /\ call.target.id \in IdsIn(heap'[t.sentMessages])
                     /\ sent[call.target.id] = t.message]_vars

\* C20 witness: the ledger has messages for both triggers, and a task for one
\* of them has deleted and edited messages of its own sequence.
C20_Witness ==
    \E k \in Tasks :
        /\ Finished(k)
        /\ CallsOf(k, "delete") # <<>> /\ CallsOf(k, "edit") # <<>>
        /\ \A id \in TriggerIds : Ledger(id) # <<>>

====
